---- MODULE Spec2Model ----
(***************************************************************************)
(* Model of check_dig (src/check_dig/check_dig.c): one invocation of       *)
(* main(), the external dig process started by system(), and the pure      *)
(* function parse_output().                                                *)
(*                                                                         *)
(* C strings are sequences of one-character strings.  A char* that may be  *)
(* NULL is either NULL (below) or such a sequence.  An int that has not    *)
(* been produced yet is the empty sequence, a produced one is <<n>>.       *)
(***************************************************************************)
EXTENDS Integers, Sequences, FiniteSets, TLC

VARIABLES
  pc,               \* position of main: start, run, system, status, exit
  argv,             \* main's argument vector, argv[1] is C's argv[0]
  query_address,    \* main local, line 107
  server_port,      \* main local, line 108
  record_type,      \* main local, line 109
  command_line,     \* main local, line 145
  status,           \* main local, line 149
  output,           \* main local, line 159 / parameter of parse_output
  expected_address, \* parameter of parse_output
  parse_ret,        \* value returned by parse_output
  exit_code,        \* exit status of the process
  stdout,           \* lines written to standard output, oldest first
  stderr,           \* lines written to standard error, oldest first
  queries,          \* number of calls of system() made by run_command
  answers           \* answer values the dig process produced

vars == <<pc, argv, query_address, server_port, record_type, command_line,
          status, output, expected_address, parse_ret, exit_code, stdout,
          stderr, queries, answers>>

(***************************************************************************)
(* Bounds of the model.                                                    *)
(***************************************************************************)
MaxArgs == 3    \* arguments after the program name
MaxLine == 2    \* characters of the line main reads from standard input
MaxLen == 4     \* characters of the text handed to parse_output
MaxExp == 2     \* characters of the expected address

MAX_COMMAND_LENGTH == 1024

NULL == <<"NULL">>
NoValue == <<>>
Some(x) == <<x>>

Min(a, b) == IF a < b THEN a ELSE b

RECURSIVE Strings(_, _)
Strings(alphabet, n) ==
  IF n = 0 THEN {<<>>}
  ELSE LET shorter == Strings(alphabet, n - 1)
       IN shorter \cup {Append(s, c) : s \in shorter, c \in alphabet}

Take(s, n) == SubSeq(s, 1, Min(n, Len(s)))

(***************************************************************************)
(* Inputs.                                                                 *)
(***************************************************************************)
OptP == <<"-", "p">>
OptT == <<"-", "t">>
ProgName == <<"d">>
Tokens == {OptP, OptT, <<"w">>, <<"M", "X">>, <<"8", "0">>, <<"0">>,
           <<"-", "1">>, <<"7", "0", "0", "0", "0">>}

RECURSIVE ArgLists(_)
ArgLists(n) ==
  IF n = 0 THEN {<<>>}
  ELSE LET shorter == ArgLists(n - 1)
       IN shorter \cup {Append(a, t) : a \in shorter, t \in Tokens}

\* main(0, NULL) of dns_lookup_test.c is the empty vector
ArgVectors == {<<>>} \cup {<<ProgName>> \o a : a \in ArgLists(MaxArgs)}

Alphabet == {"A", "a", ":", " ", "\n"}
Whitespace == {" ", "\n"}

\* what fgets can store: a non-empty line whose only newline is its last char
StdinLines ==
  {s \in Strings(Alphabet, MaxLine) :
     /\ Len(s) > 0
     /\ \A i \in 1..(Len(s) - 1) : s[i] # "\n"}

\* what the process status of dig can be: 0, exit 1, exit 9, exit 10
SystemStatuses == {0, 256, 2304, 2560}

\* what dig +short writes for a query that worked: one value per line
AnswerSets == {<<>>, << <<"a">> >>, << <<"a">>, <<"A">> >>}

(***************************************************************************)
(* libc                                                                    *)
(***************************************************************************)
Digits == {"0", "1", "2", "3", "4", "5", "6", "7", "8", "9"}
DigitChars == <<"0", "1", "2", "3", "4", "5", "6", "7", "8", "9">>
DigitVal(c) == (CHOOSE i \in 1..10 : DigitChars[i] = c) - 1

RECURSIVE atoi_digits(_, _, _)
atoi_digits(s, i, acc) ==
  IF i > Len(s) \/ s[i] \notin Digits THEN acc
  ELSE atoi_digits(s, i + 1, acc * 10 + DigitVal(s[i]))

RECURSIVE atoi_skip(_, _)
atoi_skip(s, i) ==
  IF i <= Len(s) /\ s[i] \in Whitespace THEN atoi_skip(s, i + 1) ELSE i

\* atoi: leading white space, an optional sign, then digits up to the first
\* non-digit; 0 when there is no digit.  The arguments of the model have at
\* most five digits, so the value fits an int.
atoi(s) ==
  LET i == atoi_skip(s, 1)
  IN IF i <= Len(s) /\ s[i] = "-" THEN 0 - atoi_digits(s, i + 1, 0)
     ELSE IF i <= Len(s) /\ s[i] = "+" THEN atoi_digits(s, i + 1, 0)
     ELSE atoi_digits(s, i, 0)

RECURSIVE utoa(_)
utoa(n) ==
  IF n < 10 THEN <<DigitChars[n + 1]>>
  ELSE utoa(n \div 10) \o <<DigitChars[(n % 10) + 1]>>

\* printf's %d
itoa(n) == IF n < 0 THEN <<"-">> \o utoa(0 - n) ELSE utoa(n)

\* strchr: the 1-based index of the first c in s, 0 for a NULL result
strchr(s, c) ==
  IF \E i \in 1..Len(s) : s[i] = c
  THEN CHOOSE i \in 1..Len(s) : s[i] = c /\ \A j \in 1..(i - 1) : s[j] # c
  ELSE 0

\* strndup(s + from - 1, n): at most n characters of s from the 1-based index
\* from.  n is a size_t: a negative n is a value above any string length.
strndup(s, from, n) ==
  LET avail == Len(s) - from + 1
      count == IF n < 0 THEN avail ELSE Min(n, avail)
  IN SubSeq(s, from, from + count - 1)

\* %s of a char* (glibc prints a NULL pointer as "(null)")
PercentS(p) == IF p = NULL THEN <<"(", "n", "u", "l", "l", ")">> ELSE p

(***************************************************************************)
(* check_dig.c                                                             *)
(***************************************************************************)
\* print_error: one line on standard error
print_error(message) == <<"ERROR: ", message>>

RunningCommand ==
  <<"R", "u", "n", "n", "i", "n", "g", " ",
    "c", "o", "m", "m", "a", "n", "d", ":", " ">>

\* print_command: one line on standard output
print_command(command) == RunningCommand \o command

DNS_ == <<"D", "N", "S", " ">>
Dash == <<" ", "-", " ">>

\* the line printf("DNS %s - %s\n", record, address) writes
StatusLine(record, address) == DNS_ \o record \o Dash \o address

\* parse_output without the test of strchr's result: the fields are cut as
\* if the separator stood right before the text
parse_output_unchecked(out, expected) ==
  LET colon == strchr(out, ":")
      record == strndup(out, 1, colon - 1)
      address == strndup(out, colon + 1, Len(out) - (colon - 1) - 2)
  IN IF expected # NULL /\ expected # address
     THEN [ret |-> NULL, out |-> <<>>,
           err |-> <<print_error("Expected address not found")>>]
     ELSE [ret |-> out, out |-> <<StatusLine(record, address)>>,
           err |-> <<>>]

\* parse_output: the returned pointer and the lines it writes
parse_output(out, expected) ==
  LET colon == strchr(out, ":")
      record == strndup(out, 1, colon - 1)
      address == strndup(out, colon + 1, Len(out) - (colon - 1) - 2)
  IN IF colon = 0
     THEN [ret |-> NULL, out |-> <<>>,
           err |-> <<print_error("Could not find colon in output of command")>>]
     ELSE IF expected # NULL /\ expected # address
     THEN [ret |-> NULL, out |-> <<>>,
           err |-> <<print_error("Expected address not found")>>]
     ELSE [ret |-> out, out |-> <<StatusLine(record, address)>>,
           err |-> <<>>]

\* the argument loop of main, lines 111-136; i is the C index into argv
RECURSIVE arg_loop(_, _, _)
arg_loop(av, i, st) ==
  IF i >= Len(av) THEN st
  ELSE IF av[i + 1] = OptP
  THEN IF i + 1 < Len(av)
       THEN arg_loop(av, i + 2, [st EXCEPT !.server_port = atoi(av[i + 2])])
       ELSE [st EXCEPT !.ret = Some(1), !.err = "No server port specified"]
  ELSE IF av[i + 1] = OptT
  THEN IF i + 1 < Len(av)
       THEN arg_loop(av, i + 2, [st EXCEPT !.record_type = av[i + 2]])
       ELSE [st EXCEPT !.ret = Some(1), !.err = "No record type specified"]
  ELSE IF st.query_address = NULL
  THEN arg_loop(av, i + 1, [st EXCEPT !.query_address = av[i + 1]])
  ELSE [st EXCEPT !.ret = Some(1), !.err = "Too many arguments"]

main_locals ==
  [query_address |-> NULL, server_port |-> 53, record_type |-> <<"A">>,
   ret |-> NoValue, err |-> ""]

\* main_args without the test of query_address
main_args_unchecked(av) == arg_loop(av, 1, main_locals)

\* lines 105-142 of main: the locals after the loop and the test of
\* query_address; ret is the value returned, if main returns here
main_args(av) ==
  LET st == arg_loop(av, 1, main_locals)
  IN IF st.ret # NoValue THEN st
     ELSE IF st.query_address = NULL
     THEN [st EXCEPT !.ret = Some(1), !.err = "No query address specified"]
     ELSE st

DigAt == <<"d", "i", "g", " ", "@">>
DashP == <<" ", "-", "p", " ">>
PlusShort == <<" ", "+", "s", "h", "o", "r", "t">>

\* snprintf(command_line, sizeof(command_line), "dig @%s -p %d %s +short", ..)
format_command(address, port, type) ==
  Take(DigAt \o PercentS(address) \o DashP \o itoa(port) \o <<" ">>
         \o PercentS(type) \o PlusShort,
       MAX_COMMAND_LENGTH - 1)

(***************************************************************************)
(* One invocation of the program.                                          *)
(***************************************************************************)
Init ==
  /\ pc = "start"
  /\ argv \in ArgVectors
  /\ query_address = NULL
  /\ server_port = 53
  /\ record_type = <<"A">>
  /\ command_line = <<>>
  /\ status = NoValue
  /\ output = <<>>
  /\ expected_address = NULL
  /\ parse_ret = NULL
  /\ exit_code = NoValue
  /\ stdout = <<>>
  /\ stderr = <<>>
  /\ queries = 0
  /\ answers = <<>>

\* main, lines 105-142: read the arguments, return 1 on a bad vector
MainArgs ==
  /\ pc = "start"
  /\ LET st == main_args(argv)
     IN /\ query_address' = st.query_address
        /\ server_port' = st.server_port
        /\ record_type' = st.record_type
        /\ IF st.ret # NoValue
           THEN /\ stderr' = Append(stderr, print_error(st.err))
                /\ exit_code' = st.ret
                /\ pc' = "exit"
           ELSE /\ UNCHANGED <<stderr, exit_code>>
                /\ pc' = "run"
  /\ UNCHANGED <<argv, command_line, status, output, expected_address,
                 parse_ret, stdout, queries, answers>>

\* main, lines 144-149: build and print the command, then start it with
\* run_command; system() blocks until the dig process has ended
MainRunCommand ==
  /\ pc = "run"
  /\ command_line' = format_command(query_address, server_port, record_type)
  /\ stdout' = Append(stdout, print_command(command_line'))
  /\ queries' = queries + 1
  /\ pc' = "system"
  /\ UNCHANGED <<argv, query_address, server_port, record_type, status,
                 output, expected_address, parse_ret, exit_code, stderr,
                 answers>>

\* the dig process ends: it has written its answers to the standard output it
\* shares with the program, and system() returns its status (lines 59-61)
SystemReturns ==
  /\ pc = "system"
  /\ \E s \in SystemStatuses :
       /\ status' = Some(s)
       /\ answers' \in (IF s = 0 THEN AnswerSets ELSE {<<>>})
  /\ stdout' = stdout \o answers'
  /\ pc' = "status"
  /\ UNCHANGED <<argv, query_address, server_port, record_type, command_line,
                 output, expected_address, parse_ret, exit_code, stderr,
                 queries>>

\* MainCommandFailed with a retry: a failed command is started once more
MainCommandFailedRetry ==
  /\ pc = "status"
  /\ status # Some(0)
  /\ stderr' = Append(stderr, <<"ERROR: Command failed with status ">>
                                \o itoa(status[1]))
  /\ IF queries < 2
     THEN /\ pc' = "run"
          /\ UNCHANGED exit_code
     ELSE /\ pc' = "exit"
          /\ exit_code' = Some(1)
  /\ UNCHANGED <<argv, query_address, server_port, record_type, command_line,
                 status, output, expected_address, parse_ret, stdout, queries,
                 answers>>

\* main, lines 151-155: the command failed
MainCommandFailed ==
  /\ pc = "status"
  /\ status # Some(0)
  /\ stderr' = Append(stderr, <<"ERROR: Command failed with status ">>
                                \o itoa(status[1]))
  /\ exit_code' = Some(1)
  /\ pc' = "exit"
  /\ UNCHANGED <<argv, query_address, server_port, record_type, command_line,
                 status, output, expected_address, parse_ret, stdout, queries,
                 answers>>

\* main, lines 157-163: fgets stored a line of standard input in output;
\* parse_output(output, NULL) prints, its result is dropped, main returns 0
MainParseLine ==
  /\ pc = "status"
  /\ status = Some(0)
  /\ \E line \in StdinLines :
       /\ output' = Take(line, MAX_COMMAND_LENGTH - 1)
       /\ expected_address' = NULL
       /\ LET r == parse_output(output', NULL)
          IN /\ parse_ret' = r.ret
             /\ stdout' = stdout \o r.out
             /\ stderr' = stderr \o r.err
  /\ exit_code' = Some(0)
  /\ pc' = "exit"
  /\ UNCHANGED <<argv, query_address, server_port, record_type, command_line,
                 status, queries, answers>>

\* main, lines 159-163 when standard input is at its end: fgets stores
\* nothing and its result is not tested, so parse_output reads the
\* uninitialised array output.  The array holds any bytes: it is any text,
\* or it has no terminator in reach and the process dies in strchr (SIGSEGV).
MainParseUninitialised ==
  /\ pc = "status"
  /\ status = Some(0)
  /\ expected_address' = NULL
  /\ \/ \E garbage \in Strings(Alphabet, MaxLine) :
          /\ output' = garbage
          /\ LET r == parse_output(output', NULL)
             IN /\ parse_ret' = r.ret
                /\ stdout' = stdout \o r.out
                /\ stderr' = stderr \o r.err
          /\ exit_code' = Some(0)
     \/ /\ exit_code' = Some(128 + 11)
        /\ UNCHANGED <<output, parse_ret, stdout, stderr>>
  /\ pc' = "exit"
  /\ UNCHANGED <<argv, query_address, server_port, record_type, command_line,
                 status, queries, answers>>

Next ==
  \/ MainArgs
  \/ MainRunCommand
  \/ SystemReturns
  \/ MainCommandFailed
  \/ MainParseLine
  \/ MainParseUninitialised

Spec == Init /\ [][Next]_vars

\* The steps of main are taken when they can be; nothing makes the dig
\* process end, so SystemReturns carries no fairness.
FairSpec ==
  /\ Init
  /\ [][Next]_vars
  /\ WF_vars(MainArgs)
  /\ WF_vars(MainRunCommand)
  /\ WF_vars(MainCommandFailed)
  /\ WF_vars(MainParseLine)
  /\ WF_vars(MainParseUninitialised)

(***************************************************************************)
(* parse_output on its own: every text and every expected address of the   *)
(* bounds, one call.                                                       *)
(***************************************************************************)
ExpectedAddresses == {NULL} \cup Strings({"A", "a"}, MaxExp)

ParseInit ==
  /\ pc = "parse_output"
  /\ output \in Strings(Alphabet, MaxLen)
  /\ expected_address \in ExpectedAddresses
  /\ parse_ret = NULL
  /\ argv = <<>>
  /\ query_address = NULL
  /\ server_port = 53
  /\ record_type = <<"A">>
  /\ command_line = <<>>
  /\ status = NoValue
  /\ exit_code = NoValue
  /\ stdout = <<>>
  /\ stderr = <<>>
  /\ queries = 0
  /\ answers = <<>>

\* one call parse_output(output, expected_address), lines 80-103
CallParseOutput ==
  /\ pc = "parse_output"
  /\ LET r == parse_output(output, expected_address)
     IN /\ parse_ret' = r.ret
        /\ stdout' = stdout \o r.out
        /\ stderr' = stderr \o r.err
  /\ pc' = "parsed"
  /\ UNCHANGED <<argv, query_address, server_port, record_type, command_line,
                 status, output, expected_address, exit_code, queries,
                 answers>>

ParseNext == CallParseOutput

ParseSpec == ParseInit /\ [][ParseNext]_vars

(***************************************************************************)
(* Properties.                                                             *)
(***************************************************************************)
HasColon(s) == \E i \in 1..Len(s) : s[i] = ":"

RECURSIVE RTrim(_)
RTrim(s) ==
  IF s # <<>> /\ s[Len(s)] \in Whitespace
  THEN RTrim(SubSeq(s, 1, Len(s) - 1))
  ELSE s

IsPrefix(p, s) == Len(p) <= Len(s) /\ SubSeq(s, 1, Len(p)) = p

Contains(s, p) ==
  \E i \in 0..(Len(s) - Len(p)) : SubSeq(s, i + 1, i + Len(p)) = p

\* a line of the form "DNS <status-word> - <summary>"
IsStatusLine(line) == IsPrefix(DNS_, line) /\ Contains(line, Dash)

C2_BusinessRuleCritical ==
  (/\ pc = "exit"
   /\ status = Some(0)
   /\ \/ answers = <<>>
      \/ /\ expected_address # NULL
         /\ \A i \in 1..Len(answers) : answers[i] # expected_address)
  => exit_code = Some(2)

\* C3: when the external command returns a non-zero status, the exit code
\* is 3 (UNKNOWN).
C3_TransportFailureUnknown ==
  (pc = "exit" /\ status # NoValue /\ status # Some(0))
  => exit_code = Some(3)

\* C4: every run ends, also one whose external command never completes,
\* with a final status.
C4_Terminates == <>(pc = "exit" /\ exit_code # NoValue)

\* C5: the external command is started at most once in a run, exactly once
\* when the arguments pass validation, and no outcome of it starts it again.
C5_OneQuery ==
  /\ queries \in {0, 1}
  /\ pc \in {"start", "run"} => queries = 0
  /\ pc \in {"system", "status"} => queries = 1
  /\ pc = "exit" => (queries = 1 <=> main_args(argv).ret = NoValue)

C5_Witness ==
  /\ pc = "exit"
  /\ status = Some(2304)
  /\ exit_code = Some(1)
  /\ queries = 1

\* C6: whenever the external command has been started, its port is in
\* 1..65535, and it is 53 when -p is not among the arguments.
C6_PortInRange ==
  queries > 0 =>
    /\ server_port \in 1..65535
    /\ (\A i \in 1..Len(argv) : argv[i] # OptP) => server_port = 53

\* C7: standard output holds nothing but one status line
\* "DNS <status-word> - <summary>"; the command issued is never on it.
C7_StdoutOnlyStatusLine ==
  /\ Len(stdout) <= 1
  /\ \A i \in 1..Len(stdout) :
       /\ IsStatusLine(stdout[i])
       /\ ~Contains(stdout[i], command_line)

\* C8: with a query name, no expected value and a command that succeeds with
\* at least one answer, the exit code is 0 and the status line printed is
\* "DNS <record type> - <first answer>".
C8_MatchIsOk ==
  (/\ pc = "exit"
   /\ query_address # NULL
   /\ expected_address = NULL
   /\ status = Some(0)
   /\ answers # <<>>)
  => /\ exit_code = Some(0)
     /\ \E i \in 1..Len(stdout) :
          stdout[i] = StatusLine(record_type, answers[1])

\* C9: for a text without ':' (the empty text included) parse_output returns
\* NULL after its error message and prints no status line.
C9_NoSeparatorRejected ==
  (pc = "parsed" /\ ~HasColon(output)) =>
    /\ parse_ret = NULL
    /\ stdout = <<>>
    /\ stderr = <<print_error("Could not find colon in output of command")>>

C9_Witness ==
  /\ pc = "parsed"
  /\ output = <<"A", "a">>
  /\ parse_ret = NULL
  /\ stdout = <<>>
  /\ Len(stderr) = 1

\* C10: for a text <record>:<value> followed by any trailing white space,
\* the value parsed is <value> without the trailing white space and nothing
\* else removed; parse_output reports a match iff no expected value is given
\* or the value equals it exactly.
C10_TrimAndMatch ==
  (pc = "parsed" /\ HasColon(output)) =>
    LET colon == CHOOSE i \in 1..Len(output) :
                   output[i] = ":" /\ \A j \in 1..(i - 1) : output[j] # ":"
        record == SubSeq(output, 1, colon - 1)
        value == RTrim(SubSeq(output, colon + 1, Len(output)))
    IN /\ parse_ret # NULL <=>
            (expected_address = NULL \/ expected_address = value)
       /\ parse_ret # NULL => stdout = <<StatusLine(record, value)>>

====
